---- MODULE Spec2Model ----
(***************************************************************************)
(* Model of api/index.py: the swipe-captcha challenge protocol.            *)
(*   api_create  issues an HMAC-signed challenge and records it in the     *)
(*               in-memory dict `challenges`;                              *)
(*   api_verify  checks a proof bundle (presence, timestamp, expiry,       *)
(*               signature, proof marker, optional trace heuristics) and,  *)
(*               on success, pops the challenge and mints a final token.   *)
(* Ids 1..MaxIds stand for uuid4 strings, 0 for an absent or empty field.  *)
(* HMAC-SHA256 is modelled as an injective function of (key, message).     *)
(***************************************************************************)
EXTENDS Integers, Sequences, FiniteSets, TLC

\* ----- bounds of the model -----
MaxIds == 2
Epoch == 1000
MaxElapsed == 121
MaxSamples == 2

Ids == 1..MaxIds
\* two request threads serve concurrent verify calls
Procs == {1, 2}
\* the wall clock (int(time.time())) advances between requests by one of these
TickSteps == {119, 120, 121}

\* ----- program constants -----
SECRET_KEY == "replace_this_with_a_real_secret"
EXPIRES_IN == 120
MIN_DRAG == 230
DEFAULT_MIN_DRAG == 230
MIN_TOTAL_MS == 60
MAX_TOTAL_MS == 10000
\* a key the server does not hold (hex strings minted by a client)
CLIENT_KEY == "client"

VARIABLES
    now,          \* int(time.time())
    challenges,   \* the dict `challenges`: id -> [created, min_drag]
    issued,       \* envelopes returned by api_create: id -> timestamp
    verified,     \* ids for which some verify call has returned success
    lost,         \* ids whose store entry was dropped by a process restart
    rejected,     \* id of the latest rejected verify call (0: none yet)
    last,         \* the verify call whose response is on its way to the client
    pc,           \* concurrent verify: position of each request thread
    local         \* concurrent verify: locals of each request thread

vars == <<now, challenges, issued, verified, lost, rejected, last, pc, local>>

\* ----- values -----
\* hmac.new(key, msg, sha256).hexdigest(): a hex string determined by key and message
Hmac(key, msg) == [kind |-> "hex", key |-> key, msg |-> msg]
NoSignature == [kind |-> "none", key |-> "", msg |-> <<>>]       \* field absent, null or ""
NonStrSignature == [kind |-> "nonstr", key |-> "", msg |-> <<>>] \* a JSON number, list, or non-ASCII string
ForgedSignature == Hmac(CLIENT_KEY, <<>>)                       \* a hex string not made with SECRET_KEY

\* a signature that covers the id alone
sign_challenge_id_only(challenge_id, ts) == Hmac(SECRET_KEY, <<challenge_id>>)

\* f"{challenge_id}|{ts}": the pair is recoverable from the string (a uuid holds no "|")
sign_challenge(challenge_id, ts) == Hmac(SECRET_KEY, <<challenge_id, ts>>)

\* hmac.compare_digest(str, x) raises TypeError unless x is an ASCII str
compare_digest(a, b) ==
    IF b.kind # "hex" THEN "TypeError"
    ELSE IF a = b THEN "True" ELSE "False"

verify_signature(challenge_id, ts, signature) ==
    compare_digest(sign_challenge(challenge_id, ts), signature)

\* base64.b64encode(f"swiped-{challenge_id}".encode()).decode(); 0 is the default ""
expected_proof(challenge_id) == [b64 |-> "swiped-", id |-> challenge_id]
EmptyProof == [b64 |-> "", id |-> 0]

\* hmac.new(SECRET_KEY, f"{challenge_id}".encode(), sha256).hexdigest()
final_token(challenge_id) == Hmac(SECRET_KEY, <<challenge_id>>)
NoToken == NoSignature

\* raw JSON timestamp: absent/null, an integer, a numeric string, or anything else
NoTimestamp == [form |-> "none", val |-> 0]
JunkTimestamp == [form |-> "junk", val |-> 0]
IntTimestamp(v) == [form |-> "int", val |-> v]
StrTimestamp(v) == [form |-> "str", val |-> v]

\* Python truthiness of the timestamp field (`not timestamp`)
TimestampTruthy(timestamp) ==
    CASE timestamp.form = "none" -> FALSE
      [] timestamp.form = "int" -> timestamp.val # 0
      [] OTHER -> TRUE

\* int(timestamp): succeeds on integers and numeric strings
IntParses(timestamp) == timestamp.form \in {"int", "str"}
IntOf(timestamp) == timestamp.val

\* one sample of the trace: {"t":..,"x":..}, [t, x], or something int() cannot read
Sample(t, x) == [form |-> "dict", t |-> t, x |-> x]
Pair(t, x) == [form |-> "pair", t |-> t, x |-> x]
JunkSample == [form |-> "junk", t |-> 0, x |-> 0]

\* the points field: a JSON list of samples, or a value that is not a list
PointsList(samples) == [kind |-> "list", samples |-> samples]
NotAList == [kind |-> "other", samples |-> <<>>]
NoPoints == PointsList(<<>>)

GoodTrace == PointsList(<<Sample(0, 0), Sample(100, 250)>>)
TooFastTrace == PointsList(<<Sample(0, 0), Sample(59, 250)>>)
TooSlowTrace == PointsList(<<Pair(0, 0), Pair(10001, 250)>>)
IncompleteTrace == PointsList(<<Sample(0, 0), Sample(100, 229)>>)
BadTimingTrace == PointsList(<<Sample(0, 0), Sample(100, 100), Sample(100, 250)>>)
MalformedTrace == PointsList(<<Sample(0, 0), JunkSample>>)

\* ----- responses -----
\* every rejection answered with 400
Reject_400(error, status) ==
    [kind |-> "response", status |-> 400, success |-> FALSE, error |-> error, token |-> NoSignature]

Reject(error, status) ==
    [kind |-> "response", status |-> status, success |-> FALSE, error |-> error, token |-> NoToken]
Success(token) ==
    [kind |-> "response", status |-> 200, success |-> TRUE, error |-> "", token |-> token]
\* an exception escapes the handler: Flask answers 500 without a JSON outcome
Unhandled(exc) ==
    [kind |-> "unhandled", status |-> 500, success |-> FALSE, error |-> exc, token |-> NoToken]

\* ----- the challenge store (a dict) -----
EmptyStore == <<>>
\* challenges[cid] = {...}
Put(store, cid, meta) == [k \in (DOMAIN store) \cup {cid} |-> IF k = cid THEN meta ELSE store[k]]
\* the whole dict emptied: challenges.clear()
Pop_clear(store, cid) == <<>>

\* challenges.pop(cid, None)
Pop(store, cid) == [k \in (DOMAIN store) \ {cid} |-> store[k]]
\* the creation time kept in milliseconds
Meta_millis(ts) == [created |-> ts * 1000, min_drag |-> MIN_DRAG]

Meta(ts) == [created |-> ts, min_drag |-> MIN_DRAG]

\* ----- api_verify, check by check -----
Request(body, challenge_id, timestamp, signature, proof, points) ==
    [body |-> body, challenge_id |-> challenge_id, timestamp |-> timestamp,
     signature |-> signature, proof |-> proof, points |-> points]

\* `if not (challenge_id and timestamp and signature)`
ParamsPresent(req) ==
    /\ req.challenge_id # 0
    /\ TimestampTruthy(req.timestamp)
    /\ req.signature.kind # "none"

\* the boundary moved: `now - ts >= 120`
Expired_inclusive(t, ts) == t - ts >= EXPIRES_IN

\* `if now - ts > 120`
Expired(t, ts) == t - ts > EXPIRES_IN

\* the two list comprehensions succeed iff int() reads t and x of every sample
PointsParse(samples) == \A i \in 1..Len(samples) : samples[i].form # "junk"

\* equal times let through: `times[i] < times[i-1]`
BadTiming_strict(samples) == \E i \in 2..Len(samples) : samples[i].t < samples[i-1].t

\* `for i in range(1, len(times)): if times[i] <= times[i-1]`
BadTiming(samples) == \E i \in 2..Len(samples) : samples[i].t <= samples[i-1].t

\* the elapsed time counted from 0 instead of from the first sample
TotalMs_from_zero(samples) == samples[Len(samples)].t

\* times[-1] - times[0]
TotalMs(samples) == samples[Len(samples)].t - samples[1].t

\* the wrong key of the entry is read: meta.get('created')
MinDragOf_created(meta_present, meta) == IF meta_present THEN meta.created ELSE DEFAULT_MIN_DRAG

\* meta.get('min_drag') if meta else 230
MinDragOf(meta_present, meta) == IF meta_present THEN meta.min_drag ELSE DEFAULT_MIN_DRAG
MinDrag(store, cid) ==
    MinDragOf(cid \in DOMAIN store, IF cid \in DOMAIN store THEN store[cid] ELSE Meta(0))

\* the lower bound taken strictly: `total_ms <= 60`
TraceError_at_most(samples) ==
    IF ~PointsParse(samples) THEN "malformed_points"
    ELSE IF BadTiming(samples) THEN "bad_timing"
    ELSE IF TotalMs(samples) <= MIN_TOTAL_MS THEN "too_fast"
    ELSE IF TotalMs(samples) > MAX_TOTAL_MS THEN "too_slow"
    ELSE ""

\* lines 256-272: the checks on the trace that do not read the store
TraceError(samples) ==
    IF ~PointsParse(samples) THEN "malformed_points"
    ELSE IF BadTiming(samples) THEN "bad_timing"
    ELSE IF TotalMs(samples) < MIN_TOTAL_MS THEN "too_fast"
    ELSE IF TotalMs(samples) > MAX_TOTAL_MS THEN "too_slow"
    ELSE ""

\* `if isinstance(points, list) and len(points) > 0`
HasPoints(points) == points.kind = "list" /\ Len(points.samples) > 0

\* the signature checked before the expiry
HeaderOutcome_signature_first(req, t) ==
    IF req.body = "unparseable" THEN Reject("bad_request", 400)
    ELSE IF req.body # "object" THEN Unhandled("AttributeError")
    ELSE IF ~ParamsPresent(req) THEN Reject("missing_params", 400)
    ELSE IF ~IntParses(req.timestamp) THEN Reject("bad_timestamp", 400)
    ELSE IF verify_signature(req.challenge_id, IntOf(req.timestamp), req.signature) = "TypeError"
         THEN Unhandled("TypeError")
    ELSE IF verify_signature(req.challenge_id, IntOf(req.timestamp), req.signature) = "False"
         THEN Reject("invalid_signature", 403)
    ELSE IF Expired(t, IntOf(req.timestamp)) THEN Reject("expired", 400)
    ELSE IF req.proof # expected_proof(req.challenge_id) THEN Reject("invalid_proof", 400)
    ELSE Success(NoToken)

\* lines 220-251: the checks before the trace; Success(NoToken) when all of them pass
HeaderOutcome(req, t) ==
    IF req.body = "unparseable" THEN Reject("bad_request", 400)
    ELSE IF req.body # "object" THEN Unhandled("AttributeError")
    ELSE IF ~ParamsPresent(req) THEN Reject("missing_params", 400)
    ELSE IF ~IntParses(req.timestamp) THEN Reject("bad_timestamp", 400)
    ELSE IF Expired(t, IntOf(req.timestamp)) THEN Reject("expired", 400)
    ELSE IF verify_signature(req.challenge_id, IntOf(req.timestamp), req.signature) = "TypeError"
         THEN Unhandled("TypeError")
    ELSE IF verify_signature(req.challenge_id, IntOf(req.timestamp), req.signature) = "False"
         THEN Reject("invalid_signature", 403)
    ELSE IF req.proof # expected_proof(req.challenge_id) THEN Reject("invalid_proof", 400)
    ELSE Success(NoToken)

\* the response of api_verify(req) run at time t against the store
VerifyResponse(req, store, t) ==
    IF ~HeaderOutcome(req, t).success THEN HeaderOutcome(req, t)
    ELSE IF HasPoints(req.points) /\ TraceError(req.points.samples) # ""
         THEN Reject(TraceError(req.points.samples), 400)
    ELSE IF HasPoints(req.points)
            /\ req.points.samples[Len(req.points.samples)].x < MinDrag(store, req.challenge_id)
         THEN Reject("incomplete", 400)
    ELSE Success(final_token(req.challenge_id))

\* the pop left out: the entry stays after a success
StoreAfterVerify_never_pop(req, store, t) == store

\* the entry is popped before the checks, whatever the outcome
StoreAfterVerify_always_pop(req, store, t) == Pop(store, req.challenge_id)

\* the store after api_verify(req): popped on success only (line 284)
StoreAfterVerify(req, store, t) ==
    IF VerifyResponse(req, store, t).success THEN Pop(store, req.challenge_id) ELSE store

\* ----- what a client can send -----
Issued == {c \in Ids : issued[c] # 0}
KnownTimes == {issued[c] : c \in Issued} \cup {now}
TimestampInputs ==
    {NoTimestamp, JunkTimestamp, IntTimestamp(0)}
    \cup {IntTimestamp(v) : v \in KnownTimes} \cup {StrTimestamp(now)}
\* a client knows only the signatures api_create returned
SignatureInputs ==
    {NoSignature, NonStrSignature, ForgedSignature}
    \cup {sign_challenge(c, issued[c]) : c \in Issued}
ProofInputs == {EmptyProof} \cup {expected_proof(c) : c \in Ids}
TraceInputs ==
    {NoPoints, NotAList, GoodTrace, TooFastTrace, TooSlowTrace, IncompleteTrace,
     BadTimingTrace, MalformedTrace}

\* bundles with any combination of header fields, without or with a good trace
HeaderBundles ==
    {Request("object", c, ts, sg, pf, pts) :
        c \in 0..MaxIds, ts \in TimestampInputs, sg \in SignatureInputs,
        pf \in ProofInputs, pts \in {NoPoints, GoodTrace}}
\* bundles carrying an issued envelope, with any proof and any trace
EnvelopeBundles ==
    UNION {{Request("object", c, ts, sign_challenge(c, issued[c]), pf, pts) :
               ts \in {IntTimestamp(issued[c]), StrTimestamp(issued[c])},
               pf \in ProofInputs, pts \in TraceInputs} : c \in Issued}
\* bodies that are not a JSON object
BodyBundles ==
    {Request(b, 0, NoTimestamp, NoSignature, EmptyProof, NoPoints) : b \in {"unparseable", "nonobject"}}
Bundles == HeaderBundles \cup EnvelopeBundles \cup BodyBundles

NoRequest == Request("none", 0, NoTimestamp, NoSignature, EmptyProof, NoPoints)
NoCall == [op |-> "none", req |-> NoRequest, res |-> Unhandled("")]
VerifyCall(req, res) == [op |-> "verify", req |-> req, res |-> res]

\* ----- the state machine -----
Init ==
    /\ now = Epoch
    /\ challenges = EmptyStore
    /\ issued = [c \in Ids |-> 0]
    /\ verified = {}
    /\ lost = {}
    /\ rejected = 0
    /\ last = NoCall
    /\ pc = [p \in Procs |-> "idle"]
    /\ local = [p \in Procs |-> NoCall]

\* POST /api/captcha/create: uuid4 gives an id never used before; ids are
\* numbered in the order of issue
api_create ==
    /\ last = NoCall
    /\ \E cid \in Ids \ Issued :
        /\ \A c \in Ids : c < cid => c \in Issued
        /\ challenges' = Put(challenges, cid, Meta(now))
        /\ issued' = [issued EXCEPT ![cid] = now]
        /\ UNCHANGED <<now, verified, lost, rejected, last, pc, local>>

\* the whole handler run on one request body
HandleVerify(req) ==
    /\ last' = VerifyCall(req, VerifyResponse(req, challenges, now))
    /\ challenges' = StoreAfterVerify(req, challenges, now)
    /\ verified' = IF last'.res.success THEN verified \cup {req.challenge_id} ELSE verified
    /\ rejected' = IF last'.res.kind = "response" /\ ~last'.res.success
                   THEN req.challenge_id ELSE rejected
    /\ UNCHANGED <<now, issued, lost, pc, local>>

\* POST /api/captcha/verify, the whole handler
api_verify ==
    /\ last = NoCall
    /\ \E req \in Bundles : HandleVerify(req)

\* the wall clock moves on
Tick ==
    /\ last = NoCall
    /\ \E d \in TickSteps :
        /\ now + d - Epoch <= MaxElapsed
        /\ now' = now + d
        /\ UNCHANGED <<challenges, issued, verified, lost, rejected, last, pc, local>>

\* the process restarts: `challenges = {}` runs again, SECRET_KEY is the same
Restart ==
    /\ challenges # EmptyStore
    /\ challenges' = EmptyStore
    /\ lost' = lost \cup DOMAIN challenges
    /\ last = NoCall
    /\ UNCHANGED <<now, issued, verified, rejected, last, pc, local>>

\* the response leaves the server; the worker takes the next request
Respond ==
    /\ last # NoCall
    /\ last' = NoCall
    /\ UNCHANGED <<now, challenges, issued, verified, lost, rejected, pc, local>>

Next == api_create \/ api_verify \/ Respond \/ Tick \/ Restart

Spec == Init /\ [][Next]_vars

\* ----- verify calls that carry a trace -----
\* sample times (ms) and positions around the thresholds 60, 10000 and 230
TraceTimes == {0, 1, 60, 10001}
TraceXs == {229, 230}
TraceSamples == {Sample(t, x) : t \in TraceTimes, x \in TraceXs} \cup {JunkSample}
MiddleDipTrace ==
    PointsList(<<Sample(0, 0), Sample(100, 100), Sample(50, 150), Sample(200, 250)>>)
GeneratedTraces ==
    {PointsList(smp) : smp \in UNION {[1..k -> TraceSamples] : k \in 1..MaxSamples}}
    \cup TraceInputs \cup {MiddleDipTrace}
\* an issued envelope with its proof marker and any of the traces
TraceBundles ==
    UNION {{Request("object", c, IntTimestamp(issued[c]), sign_challenge(c, issued[c]),
                    expected_proof(c), pts) : pts \in GeneratedTraces} : c \in Issued}

\* POST /api/captcha/verify with the points the page collected
api_verify_trace ==
    /\ last = NoCall
    /\ \E req \in TraceBundles : HandleVerify(req)

NextTrace == api_create \/ api_verify_trace \/ Respond \/ Restart

SpecTrace == Init /\ [][NextTrace]_vars

\* ----- concurrent verify calls: one request thread per call -----
\* Each step is one access to shared state (the clock, the dict); the dict's
\* get and pop are each atomic, the handler takes no lock around them.
ConcBundles ==
    UNION {{Request("object", c, IntTimestamp(issued[c]), sg, expected_proof(c), pts) :
               sg \in {sign_challenge(c, issued[c]), ForgedSignature},
               pts \in {NoPoints, GoodTrace, IncompleteTrace, TooFastTrace}} : c \in Issued}

\* the store is read before the test for points
NextPc_lookup_first(req, early) == IF ~early.success THEN "respond" ELSE "lookup"

\* where the thread goes after the checks of lines 220-272: to the return on a
\* rejection, to the store lookup (line 275) with points, else to line 282
NextPc(req, early) ==
    IF ~early.success THEN "respond"
    ELSE IF HasPoints(req.points) THEN "lookup"
    ELSE "pop"

\* lines 220-272: parse the bundle, run every check that does not read the store
VerifyBegin(p) ==
    /\ pc[p] = "idle"
    /\ \E req \in ConcBundles :
        LET header == HeaderOutcome(req, now)
            early == IF ~header.success THEN header
                     ELSE IF HasPoints(req.points) /\ TraceError(req.points.samples) # ""
                          THEN Reject(TraceError(req.points.samples), 400)
                     ELSE header
        IN /\ local' = [local EXCEPT ![p] = VerifyCall(req, early)]
           /\ pc' = [pc EXCEPT ![p] = NextPc(req, early)]
    /\ UNCHANGED <<now, challenges, issued, verified, lost, rejected, last>>

\* lines 275-279: challenges.get(challenge_id) and the final position check
VerifyLookup(p) ==
    /\ pc[p] = "lookup"
    /\ LET req == local[p].req
           final_x == req.points.samples[Len(req.points.samples)].x
       IN IF final_x < MinDrag(challenges, req.challenge_id)
          THEN /\ local' = [local EXCEPT ![p].res = Reject("incomplete", 400)]
               /\ pc' = [pc EXCEPT ![p] = "respond"]
          ELSE /\ pc' = [pc EXCEPT ![p] = "pop"]
               /\ UNCHANGED local
    /\ UNCHANGED <<now, challenges, issued, verified, lost, rejected, last>>

\* lines 282-284: mint the final token, challenges.pop(challenge_id, None)
VerifyPop(p) ==
    /\ pc[p] = "pop"
    /\ challenges' = Pop(challenges, local[p].req.challenge_id)
    /\ local' = [local EXCEPT ![p].res = Success(final_token(local[p].req.challenge_id))]
    /\ pc' = [pc EXCEPT ![p] = "respond"]
    /\ UNCHANGED <<now, issued, verified, lost, rejected, last>>

\* the return statement: the response leaves the server
VerifyRespond(p) ==
    /\ pc[p] = "respond"
    /\ pc' = [pc EXCEPT ![p] = "idle"]
    /\ local' = [local EXCEPT ![p] = NoCall]
    /\ verified' = IF local[p].res.success
                   THEN verified \cup {local[p].req.challenge_id} ELSE verified
    /\ UNCHANGED <<now, challenges, issued, lost, rejected, last>>

NextConc ==
    \/ api_create
    \/ Tick
    \/ \E p \in Procs : VerifyBegin(p)
    \/ \E p \in Procs : VerifyLookup(p)
    \/ \E p \in Procs : VerifyPop(p)
    \/ \E p \in Procs : VerifyRespond(p)

SpecConc == Init /\ [][NextConc]_vars

\* ======================= properties =======================
\* what the last verify call carried
Verified == last.op = "verify"
Cid == last.req.challenge_id
Ts == IntOf(last.req.timestamp)
\* the call got past the presence and timestamp-parse checks
ReachedExpiryCheck ==
    /\ Verified
    /\ last.req.body = "object"
    /\ ParamsPresent(last.req)
    /\ IntParses(last.req.timestamp)
\* the call got past the expiry check as well
ReachedSignatureCheck == ReachedExpiryCheck /\ now - Ts <= EXPIRES_IN
\* the bundle is the issued envelope of challenge c with the proof marker and the sample trace
HonestBundle(req, c) ==
    /\ c \in Issued
    /\ req.body = "object"
    /\ req.challenge_id = c
    /\ req.timestamp \in {IntTimestamp(issued[c]), StrTimestamp(issued[c])}
    /\ req.signature = Hmac(SECRET_KEY, <<c, issued[c]>>)
    /\ req.proof = [b64 |-> "swiped-", id |-> c]

\* C1: at most one verify call per challenge id ever returns success; a replay
\* of a bundle that already succeeded is rejected.
OneTimeUse ==
    [][(last'.op = "verify" /\ last'.req.challenge_id \in verified) => ~last'.res.success]_vars

\* C2: two concurrent verify calls for the same challenge id never both hold a
\* success response with a final token.
ExactlyOnceConsume ==
    \A p, q \in Procs :
        (p # q /\ pc[p] = "respond" /\ pc[q] = "respond"
         /\ local[p].req.challenge_id = local[q].req.challenge_id)
        => ~(local[p].res.success /\ local[q].res.success)

\* C3 as stated: a call made at now - timestamp = 120 is rejected as expired,
\* a call made at now - timestamp = 119 is not.
ExpiryBoundaryAt120 ==
    ReachedExpiryCheck =>
        /\ (now - Ts = 120 => last.res = Reject("expired", 400))
        /\ (now - Ts = 119 => last.res.error # "expired")

\* C3 amended: a call made at now - timestamp = 121 is rejected as expired; a
\* call made at 120 or at 119 is not, and its outcome is that of the signature
\* check and the checks after it.
ExpiryBoundaryAt121 ==
    ReachedExpiryCheck =>
        /\ (now - Ts = 121 => last.res = Reject("expired", 400))
        /\ (now - Ts \in {119, 120} =>
              /\ last.res.error # "expired"
              /\ (last.req.signature.kind = "hex"
                  /\ last.req.signature # Hmac(SECRET_KEY, <<Cid, Ts>>)
                    => last.res = Reject("invalid_signature", 403)))
CallAtAge120Proceeds ==
    /\ ReachedExpiryCheck
    /\ now - Ts = 120
    /\ last.res.success

\* C4: once now - issuedAt > 120 for an issued challenge, no verify call for
\* its id returns success, whatever timestamp the bundle carries.
ExpiryIsFinal ==
    (Verified /\ Cid \in Issued /\ now - issued[Cid] > EXPIRES_IN) => ~last.res.success
PostponedTimestampRejected ==
    /\ ReachedSignatureCheck
    /\ Cid \in Issued
    /\ now - issued[Cid] > EXPIRES_IN
    /\ Ts = now
    /\ last.req.signature = Hmac(SECRET_KEY, <<Cid, issued[Cid]>>)
    /\ last.res = Reject("invalid_signature", 403)

\* C5: a call succeeds only with the signature sign_challenge(id, int(timestamp)),
\* and every call that passes the presence, parse and expiry checks with any
\* other signature is rejected with invalid_signature.
SignatureAuthenticity ==
    /\ (Verified /\ last.res.success => last.req.signature = Hmac(SECRET_KEY, <<Cid, Ts>>))
    /\ (ReachedSignatureCheck /\ last.req.signature # Hmac(SECRET_KEY, <<Cid, Ts>>)
          => last.res = Reject("invalid_signature", 403))

\* C6: after a restart emptied the store, no verify call for a challenge that
\* was outstanding at the restart returns success.
RestartInvalidates == (Verified /\ Cid \in lost) => ~last.res.success

\* C7: a verify call that returns success=false leaves the store as it was.
RejectionKeepsStore ==
    [][(last'.op = "verify" /\ last'.res.kind = "response" /\ ~last'.res.success)
         => challenges' = challenges]_vars
RejectedWithEntryKept ==
    /\ Verified
    /\ last.res \in {Reject("incomplete", 400), Reject("invalid_proof", 400)}
    /\ Cid \in DOMAIN challenges

\* C8: a not yet verified, not expired challenge accepts its envelope with the
\* proof marker and the trace [{t:0,x:0},{t:100,x:250}], whatever calls were
\* rejected before.
RetryUntilExpiry ==
    [][\A c \in Ids :
         (/\ last'.op = "verify"
          /\ HonestBundle(last'.req, c)
          /\ last'.req.points = PointsList(<<Sample(0, 0), Sample(100, 250)>>)
          /\ c \notin verified
          /\ now - issued[c] <= EXPIRES_IN)
         => last'.res = Success(Hmac(SECRET_KEY, <<c>>))]_vars
RetrySucceeded ==
    /\ Verified
    /\ HonestBundle(last.req, Cid)
    /\ last.req.points = GoodTrace
    /\ Cid = rejected
    /\ last.res.success

\* C9: every verify call ends with success and a token or with success=false
\* and one of the eleven error codes.
ErrorCodes ==
    {"bad_request", "missing_params", "bad_timestamp", "expired", "invalid_signature",
     "invalid_proof", "malformed_points", "bad_timing", "too_fast", "too_slow", "incomplete"}
EveryCallHandled ==
    Verified =>
        /\ last.res.kind = "response"
        /\ \/ last.res.success /\ last.res.token.kind = "hex"
           \/ ~last.res.success /\ last.res.error \in ErrorCodes

\* C10: a rejection has status 403 exactly when its error is invalid_signature
\* and 400 otherwise; a success has status 200.
StatusCodes ==
    (Verified /\ last.res.kind = "response") =>
        IF last.res.success THEN last.res.status = 200
        ELSE IF last.res.error = "invalid_signature" THEN last.res.status = 403
        ELSE last.res.status = 400
ForbiddenAnswered ==
    /\ Verified
    /\ last.res.error = "invalid_signature"
    /\ last.res.status = 403

\* C11: a non-expired, correctly signed bundle with the proof marker and no
\* points (omitted or []) goes from the header checks straight to the token
\* and the pop, never through the trace checks or the store lookup, and
\* returns success.
NoPointsPath ==
    [][\A p \in Procs : \A c \in Ids :
         /\ (/\ pc[p] = "idle" /\ pc'[p] # "idle"
             /\ HonestBundle(local'[p].req, c)
             /\ local'[p].req.points = PointsList(<<>>)
             /\ now - issued[c] <= 120)
            => pc'[p] = "pop"
         /\ (/\ pc[p] = "pop" /\ pc'[p] # "pop"
             /\ local[p].req.challenge_id = c
             /\ local[p].req.points = PointsList(<<>>))
            => /\ pc'[p] = "respond"
               /\ local'[p].res = Success(Hmac(SECRET_KEY, <<c>>))]_vars
NoPointsSucceeded ==
    \E p \in Procs :
        /\ pc[p] = "respond"
        /\ HonestBundle(local[p].req, local[p].req.challenge_id)
        /\ local[p].req.points = NoPoints
        /\ local[p].res.success

\* the call carried the issued envelope of its challenge, unexpired, with the
\* proof marker and a non-empty list of well-formed samples
PassedToTrace(call, t) ==
    /\ call.op = "verify"
    /\ HonestBundle(call.req, call.req.challenge_id)
    /\ t - issued[call.req.challenge_id] <= 120
    /\ call.req.points.kind = "list"
    /\ Len(call.req.points.samples) > 0
    /\ \A i \in 1..Len(call.req.points.samples) : call.req.points.samples[i].form # "junk"
Increasing(samples) == \A i \in 2..Len(samples) : samples[i].t > samples[i-1].t
Elapsed(samples) == samples[Len(samples)].t - samples[1].t
FinalX(samples) == samples[Len(samples)].x

\* C12: for a well-formed trace with strictly increasing times: elapsed 59 is
\* too_fast and 60 passes; 10000 passes and 10001 is too_slow; when the
\* timing passes, a final position below the threshold (229) is incomplete
\* and one at it (230) is accepted, the threshold being the stored min_drag or
\* 230 without a store entry.
HeuristicThresholds ==
    [][(PassedToTrace(last', now) /\ Increasing(last'.req.points.samples)) =>
         LET smp == last'.req.points.samples
             c == last'.req.challenge_id
             threshold == IF c \in DOMAIN challenges THEN challenges[c].min_drag ELSE 230
         IN /\ (Elapsed(smp) <= 59 => last'.res = Reject("too_fast", 400))
            /\ (Elapsed(smp) >= 10001 => last'.res = Reject("too_slow", 400))
            /\ (Elapsed(smp) \in 60..10000 =>
                  /\ (FinalX(smp) < threshold => last'.res = Reject("incomplete", 400))
                  /\ (FinalX(smp) >= threshold => last'.res.success)
                  /\ (FinalX(smp) = 229 => last'.res = Reject("incomplete", 400))
                  /\ (FinalX(smp) = 230 => last'.res.success))]_vars
AcceptedAtThresholds ==
    /\ PassedToTrace(last, now)
    /\ Elapsed(last.req.points.samples) = 60
    /\ FinalX(last.req.points.samples) = 230
    /\ Cid \in lost
    /\ last.res.success

\* C13: a well-formed trace is rejected with bad_timing exactly when some
\* sample's time is not after the time of the sample before it.
MonotonicTiming ==
    PassedToTrace(last, now) =>
        (last.res = Reject("bad_timing", 400) <=> ~Increasing(last.req.points.samples))
SharedTimestampRejected ==
    /\ PassedToTrace(last, now)
    /\ \E i \in 2..Len(last.req.points.samples) :
          last.req.points.samples[i].t = last.req.points.samples[i-1].t
    /\ last.res = Reject("bad_timing", 400)

\* C18: a trace of exactly one well-formed sample is rejected with too_fast
\* whatever its position; an accepted trace has at least two samples.
SingleSampleTooFast ==
    PassedToTrace(last, now) =>
        /\ (Len(last.req.points.samples) = 1 => last.res = Reject("too_fast", 400))
        /\ (last.res.success => Len(last.req.points.samples) >= 2)
SingleSampleRejected ==
    /\ PassedToTrace(last, now)
    /\ Len(last.req.points.samples) = 1
    /\ last.req.points.samples[1].t >= 60
    /\ FinalX(last.req.points.samples) = 230
    /\ last.res = Reject("too_fast", 400)

\* the ten checks in the order of the claim
CheckOrder ==
    <<"missing_params", "bad_timestamp", "expired", "invalid_signature", "invalid_proof",
      "malformed_points", "bad_timing", "too_fast", "too_slow", "incomplete">>
Traced(req) == req.points.kind = "list" /\ Len(req.points.samples) > 0
\* whether the bundle fails check k at time t against the store
CheckFails(k, req, t, store) ==
    CASE k = 1 -> \/ req.challenge_id = 0
                  \/ req.timestamp.form = "none"
                  \/ (req.timestamp.form = "int" /\ req.timestamp.val = 0)
                  \/ req.signature.kind = "none"
      [] k = 2 -> req.timestamp.form \notin {"int", "str"}
      [] k = 3 -> t - req.timestamp.val > 120
      [] k = 4 -> req.signature # Hmac(SECRET_KEY, <<req.challenge_id, req.timestamp.val>>)
      [] k = 5 -> req.proof # [b64 |-> "swiped-", id |-> req.challenge_id]
      [] k = 6 -> Traced(req) /\ \E i \in 1..Len(req.points.samples) :
                                    req.points.samples[i].form = "junk"
      [] k = 7 -> Traced(req) /\ ~Increasing(req.points.samples)
      [] k = 8 -> Traced(req) /\ Elapsed(req.points.samples) < 60
      [] k = 9 -> Traced(req) /\ Elapsed(req.points.samples) > 10000
      [] k = 10 -> Traced(req) /\ FinalX(req.points.samples) <
                      (IF req.challenge_id \in DOMAIN store
                       THEN store[req.challenge_id].min_drag ELSE 230)
\* the error of the first check in the order that fails, "" when none does
FirstFailure(req, t, store) ==
    IF \A k \in 1..10 : ~CheckFails(k, req, t, store) THEN ""
    ELSE CheckOrder[CHOOSE k \in 1..10 :
                      /\ CheckFails(k, req, t, store)
                      /\ \A j \in 1..(k-1) : ~CheckFails(j, req, t, store)]

\* C14: the error a verify call returns is that of the first failing check in
\* the order presence, timestamp parse, expiry, signature, proof marker,
\* malformed points, timing order, too fast, too slow, incomplete.
RejectionPrecedence ==
    [][(last'.op = "verify" /\ last'.req.body = "object" /\ last'.res.kind = "response") =>
         IF last'.res.success THEN FirstFailure(last'.req, now, challenges) = ""
         ELSE last'.res.error = FirstFailure(last'.req, now, challenges)]_vars
ExpiredBeforeSignature ==
    /\ ReachedExpiryCheck
    /\ last.req.signature = ForgedSignature
    /\ last.res = Reject("expired", 400)

\* C15: a verify call that returns success for id c leaves the store without
\* an entry for c and every other entry as it was; when c had no entry the
\* whole store is unchanged.
SuccessConsumesOwn ==
    [][(last'.op = "verify" /\ last'.res.success) =>
         LET c == last'.req.challenge_id
         IN /\ c \notin DOMAIN challenges'
            /\ DOMAIN challenges' = (DOMAIN challenges) \ {c}
            /\ \A k \in DOMAIN challenges' : challenges'[k] = challenges[k]
            /\ (c \notin DOMAIN challenges => challenges' = challenges)]_vars
ConsumedBesideOther ==
    /\ Verified
    /\ last.res.success
    /\ Cid \in Issued \ (lost \cup DOMAIN challenges)
    /\ DOMAIN challenges # {}

\* C16 as stated: the store holds only entries of challenges issued within
\* the last 120 seconds.
StoreHoldsFreshOnly == \A k \in DOMAIN challenges : now - challenges[k].created <= 120

\* C16 amended: the store holds only entries of challenges issued since the
\* last restart and not yet verified, whatever their age; their number is
\* bounded by the number of create calls, not by the 120-second window.
StoreHoldsUnverifiedOnly ==
    /\ \A k \in DOMAIN challenges : k \in Issued \ (verified \cup lost)
    /\ Cardinality(DOMAIN challenges) <= Cardinality(Issued)
StaleEntryKept == \E k \in DOMAIN challenges : now - challenges[k].created > 120

\* C17: every key of the store is an id api_create returned, with created
\* equal to the timestamp returned for it and min_drag 230; an entry is never
\* modified, and an id once issued is never inserted again.
StoreInvariant ==
    [][/\ \A k \in DOMAIN challenges' :
             /\ issued'[k] # 0
             /\ challenges'[k] = [created |-> issued'[k], min_drag |-> 230]
       /\ \A k \in (DOMAIN challenges) \cap (DOMAIN challenges') : challenges'[k] = challenges[k]
       /\ \A k \in (DOMAIN challenges') \ (DOMAIN challenges) : issued[k] = 0]_vars
EntryBesideRemoved ==
    /\ DOMAIN challenges # {}
    /\ \E k \in verified : k \notin DOMAIN challenges /\ issued[k] # 0

====
